---- MODULE Spec2Model ----
(***************************************************************************)
(* Model of speechbrain/utils/data_utils.py: recursive_update,             *)
(* load_extended_yaml, object_constructor, deref and _recursive_resolve.   *)
(*                                                                         *)
(* Python values are records [t, tag, v]: t is the type ("int", "str",     *)
(* "map", "seq", or "tagged" for a ruamel.yaml tagged scalar), tag is the  *)
(* value of the object's .tag.value attribute (NoTag when the object has   *)
(* no such attribute, as for plain Python values), v is the data.  A       *)
(* string is a sequence of one-character strings, a mapping is a function  *)
(* from keys (strings) to values, a list is a sequence of values.          *)
(***************************************************************************)
EXTENDS Integers, Sequences, FiniteSets, TLC

VARIABLES
    pc,              \* position of the running operation
    reference,       \* _recursive_resolve: argument `reference` of the current call
    reference_list,  \* _recursive_resolve: the list `reference_list` (mutated in place)
    preview,         \* the document the references are read from
    depth,           \* number of active _recursive_resolve frames
    result,          \* value returned by the operation
    error,           \* exception raised by the operation
    log,             \* messages given to logger.error
    derefs,          \* history: the references handed to deref, in order
    interp,          \* history: "none", "interp" after an interpolation step,
                     \*          "full" after a full match that follows one
    input,           \* the arguments the operation was started with
    overrides,       \* recursive_update, load_extended_yaml: the mapping `overrides`
    todo,            \* load_extended_yaml: keys of the nodes still to be constructed
    realized,        \* load_extended_yaml: the values constructed so far
    merges           \* history: number of times the overrides were merged

loadVars == <<overrides, todo, realized, merges>>

vars == <<pc, reference, reference_list, preview, depth, result, error, log,
          derefs, interp, input, loadVars>>

----------------------------------------------------------------------------
(* Python values *)

NoTag == <<>>
IntVal(n) == [t |-> "int", tag |-> NoTag, v |-> n]
StrVal(s) == [t |-> "str", tag |-> NoTag, v |-> s]
MapVal(f) == [t |-> "map", tag |-> NoTag, v |-> f]
ListVal(l) == [t |-> "seq", tag |-> NoTag, v |-> l]
TaggedScalar(tag) == [t |-> "tagged", tag |-> tag, v |-> <<>>]
TaggedMap(tag, f) == [t |-> "map", tag |-> tag, v |-> f]
None == [t |-> "none", tag |-> NoTag, v |-> <<>>]

(* Exceptions: kind is the Python exception class, part the path segment a *)
(* KeyError carries.                                                       *)
NoError == [kind |-> "none", part |-> <<>>]
Raise(kind) == [kind |-> kind, part |-> <<>>]
KeyError(part) == [kind |-> "KeyError", part |-> part]

(* The order in which the keys of a mapping were inserted (and so are      *)
(* iterated and printed): the documents of the model insert them in this   *)
(* order.                                                                  *)
KeyOrder == << <<"a">>, <<"b">>, <<"c">>, <<"d">> >>

RECURSIVE OrderedKeys(_, _)
OrderedKeys(f, i) ==
    IF i > Len(KeyOrder) THEN <<>>
    ELSE (IF KeyOrder[i] \in DOMAIN f THEN <<KeyOrder[i]>> ELSE <<>>)
         \o OrderedKeys(f, i + 1)

----------------------------------------------------------------------------
(* str() and repr() of a Python value *)

DigitChar == <<"0", "1", "2", "3", "4", "5", "6", "7", "8", "9">>

RECURSIVE IntStr(_)
IntStr(n) ==
    IF n < 10 THEN <<DigitChar[n + 1]>>
    ELSE IntStr(n \div 10) \o <<DigitChar[(n % 10) + 1]>>

RECURSIVE PyRepr(_)
RECURSIVE ReprItems(_, _, _)
RECURSIVE ReprElems(_, _)

(* "k: v, k: v" for the keys ks[i..] of the mapping f *)
ReprItems(f, ks, i) ==
    IF i > Len(ks) THEN <<>>
    ELSE <<"'">> \o ks[i] \o <<"'", ":", " ">> \o PyRepr(f[ks[i]])
         \o (IF i < Len(ks) THEN <<",", " ">> ELSE <<>>)
         \o ReprItems(f, ks, i + 1)

ReprElems(l, i) ==
    IF i > Len(l) THEN <<>>
    ELSE PyRepr(l[i]) \o (IF i < Len(l) THEN <<",", " ">> ELSE <<>>)
         \o ReprElems(l, i + 1)

PyRepr(x) ==
    CASE x.t = "int" -> IntStr(x.v)
      [] x.t = "str" -> <<"'">> \o x.v \o <<"'">>
      [] x.t = "map" -> <<"{">> \o ReprItems(x.v, OrderedKeys(x.v, 1), 1) \o <<"}">>
      [] x.t = "seq" -> <<"[">> \o ReprElems(x.v, 1) \o <<"]">>
      [] x.t = "none" -> <<"N", "o", "n", "e">>

(* Mutant of PyStr: repr() in place of str(). *)
PyStr_Repr(x) == PyRepr(x)

PyStr(x) == IF x.t = "str" THEN x.v ELSE PyRepr(x)

----------------------------------------------------------------------------
(* The regular expression reference_finder = \$[\w.]+ *)

WordChars == {"a", "b", "c", "d", "x", "N", "o", "n", "e", "_",
              "0", "1", "2", "3", "4", "5", "6", "7", "8", "9"}

IsRefChar(c) == c \in WordChars \/ c = "."

(* Last index of the run of [\w.] characters that follows position i *)
RECURSIVE RunEnd(_, _)
RunEnd(s, i) ==
    IF i + 1 <= Len(s) /\ IsRefChar(s[i + 1]) THEN RunEnd(s, i + 1) ELSE i

(* reference_finder.fullmatch(s) *)
fullmatch(s) ==
    /\ Len(s) >= 2
    /\ s[1] = "$"
    /\ \A i \in 2..Len(s) : IsRefChar(s[i])

(* reference_finder.findall(s): the non-overlapping matches, left to right *)
RECURSIVE findall_from(_, _)
findall_from(s, i) ==
    IF i > Len(s) THEN <<>>
    ELSE IF s[i] = "$" /\ RunEnd(s, i) > i
         THEN <<SubSeq(s, i, RunEnd(s, i))>> \o findall_from(s, RunEnd(s, i) + 1)
         ELSE findall_from(s, i + 1)

findall(s) == findall_from(s, 1)

(* '$' in str(reference) *)
HasMarker(x) == \E i \in 1..Len(PyStr(x)) : PyStr(x)[i] = "$"

----------------------------------------------------------------------------
(* deref *)

(* s.split('.') *)
RECURSIVE split_from(_, _, _)
split_from(s, i, acc) ==
    IF i > Len(s) THEN <<acc>>
    ELSE IF s[i] = "." THEN <<acc>> \o split_from(s, i + 1, <<>>)
         ELSE split_from(s, i + 1, Append(acc, s[i]))

split(s) == split_from(s, 1, <<>>)

(* `part in s` for strings: the substring test *)
IsSubstring(part, s) ==
    \E i \in 1..(Len(s) + 1) :
        /\ i + Len(part) - 1 <= Len(s)
        /\ \A j \in 1..Len(part) : s[i + j - 1] = part[j]

(* The loop of deref: for part in ref[1:].split('.').  `part not in        *)
(* preview` raises TypeError for a value that is not a container; a       *)
(* missing part is logged and the loop goes on to preview[part], which     *)
(* raises KeyError for a mapping and TypeError for a string or a list.     *)
RECURSIVE deref_walk(_, _, _, _)
deref_walk(ref, parts, node, lg) ==
    IF parts = <<>> THEN [err |-> NoError, val |-> node, log |-> lg]
    ELSE
      LET part == Head(parts) IN
      CASE node.t = "map" ->
             IF part \in DOMAIN node.v
             THEN deref_walk(ref, Tail(parts), node.v[part], lg)
             ELSE [err |-> KeyError(part), val |-> None, log |-> Append(lg, ref)]
        [] node.t = "str" ->
             [err |-> Raise("TypeError"), val |-> None,
              log |-> IF IsSubstring(part, node.v) THEN lg ELSE Append(lg, ref)]
        [] node.t = "seq" ->
             [err |-> Raise("TypeError"), val |-> None,
              log |-> IF \E i \in 1..Len(node.v) :
                            node.v[i].t = "str" /\ node.v[i].v = part
                      THEN lg ELSE Append(lg, ref)]
        [] OTHER ->
             [err |-> Raise("TypeError"), val |-> None, log |-> lg]

(* deref(ref, preview): the walk, then the tag in place of a ruamel.yaml  *)
(* node.                                                                   *)
deref(ref, doc) ==
    LET w == deref_walk(ref, split(Tail(ref)), doc, <<>>) IN
    IF w.err.kind # "none" THEN w
    ELSE IF w.val.tag # NoTag
         THEN [w EXCEPT !.val = StrVal(Tail(w.val.tag))]
         ELSE w

----------------------------------------------------------------------------
(* recursive_update *)

(* recursive_update(d, u): the loop `for k, v in u.items()` from the i-th  *)
(* key on.  d is mutated in place, so what was written before an exception *)
(* stays written.  d.get(k, {}) is the mapping at k, or a fresh mapping    *)
(* that nothing refers to once the recursive call returns.                 *)
RECURSIVE update_items(_, _, _, _)
update_items(d, u, ks, i) ==
    IF i > Len(ks) THEN [d |-> d, err |-> NoError]
    ELSE
      LET k == ks[i]
          v == u.v[k]
      IN
      IF v.t = "map"
      THEN IF d.t # "map"
           THEN [d |-> d, err |-> Raise("AttributeError")]
           ELSE LET present == k \in DOMAIN d.v
                    r == update_items(IF present THEN d.v[k] ELSE MapVal(<<>>),
                                      v, OrderedKeys(v.v, 1), 1)
                    d2 == IF present THEN [d EXCEPT !.v[k] = r.d] ELSE d
                IN  IF r.err.kind # "none" THEN [d |-> d2, err |-> r.err]
                    ELSE update_items(d2, u, ks, i + 1)
      ELSE IF d.t # "map"
           THEN [d |-> d, err |-> Raise("TypeError")]
           ELSE update_items([d EXCEPT !.v = (k :> v) @@ d.v], u, ks, i + 1)

(* Mutant of recursive_update: the merge is made into a copy of d. *)
recursive_update_Copy(d, u) ==
    [d |-> d, err |-> update_items(d, u, OrderedKeys(u.v, 1), 1).err]

recursive_update(d, u) == update_items(d, u, OrderedKeys(u.v, 1), 1)

(* recursive_update(d, u) called on its own *)
RecursiveUpdate ==
    /\ pc = "update"
    /\ LET r == recursive_update(preview, overrides) IN
         /\ preview' = r.d
         /\ error' = r.err
         /\ pc' = IF r.err.kind # "none" THEN "raised" ELSE "updated"
    /\ UNCHANGED <<reference, reference_list, depth, result, log, derefs,
                   interp, input, loadVars>>

UpdateKeys == {<<"a">>, <<"b">>}

(* The mappings with keys among UpdateKeys and values among vals *)
DictsOver(vals) ==
    {MapVal(f) : f \in UNION {[ks -> vals] : ks \in SUBSET UpdateKeys}}

(* Targets hold 1 and overrides hold 2 at their leaves, nested twice, and  *)
(* one mapping of each kind is nested three times.                         *)
Targets ==
    DictsOver({IntVal(1)} \cup DictsOver({IntVal(1)}))
    \cup {MapVal(<<"a">> :> MapVal(<<"a">> :> MapVal(<<"a">> :> IntVal(1))))}

Overrides ==
    DictsOver({IntVal(2)} \cup DictsOver({IntVal(2)}))
    \cup {MapVal(<<"a">> :> MapVal(<<"a">> :> MapVal(<<"b">> :> IntVal(2))))}

InitUpdate ==
    /\ pc = "update"
    /\ preview \in Targets
    /\ overrides \in Overrides
    /\ input = [d |-> preview, u |-> overrides]
    /\ reference = None
    /\ reference_list = <<>>
    /\ depth = 0
    /\ result = None
    /\ error = NoError
    /\ log = <<>>
    /\ derefs = <<>>
    /\ interp = "none"
    /\ todo = <<>>
    /\ realized = <<>>
    /\ merges = 0

NextUpdate == RecursiveUpdate

SpecUpdate == InitUpdate /\ [][NextUpdate]_vars

----------------------------------------------------------------------------
(* object_constructor *)

(* The classes pydoc.locate finds: C<n><r> declares the first n of         *)
(* ParamNames as its parameters, of which the first r have no default.     *)
MaxParams == 2
ParamNames == << <<"p">>, <<"q">>, <<"r">>, <<"s">> >>
ClassName(n, r) == <<"C", DigitChar[n + 1], DigitChar[r + 1]>>
ClassNames == UNION {{ClassName(n, r) : r \in 0..n} : n \in 0..MaxParams}
NoClass == [found |-> FALSE, name |-> <<>>, params |-> <<>>, required |-> 0]

(* class_ = locate(tag_suffix) *)
locate(tag_suffix) ==
    IF tag_suffix \in ClassNames
    THEN LET nr == CHOOSE nr \in (0..MaxParams) \X (0..MaxParams) :
                       ClassName(nr[1], nr[2]) = tag_suffix
         IN  [found |-> TRUE, name |-> tag_suffix,
              params |-> SubSeq(ParamNames, 1, nr[1]), required |-> nr[2]]
    ELSE NoClass

(* The value a parameter with a default takes when it is not passed *)
DefaultValue == IntVal(0)

(* Mutant of bind: the elements are zipped with the parameters, so the     *)
(* elements beyond the last parameter are dropped.                         *)
bind_Zip(class_, args) ==
    IF Len(args) < class_.required
    THEN [err |-> Raise("TypeError"), val |-> <<>>]
    ELSE [err |-> NoError,
          val |-> [p \in {class_.params[i] :
                            i \in 1..(IF Len(args) < Len(class_.params)
                                      THEN Len(args) ELSE Len(class_.params))} |->
                     args[CHOOSE i \in 1..Len(args) : class_.params[i] = p]]]

(* The arguments of inspect.signature(class_).bind: the elements bound to  *)
(* the parameters in declared order; TypeError when there are more         *)
(* elements than parameters or fewer than parameters without a default.    *)
bind(class_, args) ==
    IF Len(args) > Len(class_.params) \/ Len(args) < class_.required
    THEN [err |-> Raise("TypeError"), val |-> <<>>]
    ELSE [err |-> NoError,
          val |-> [p \in {class_.params[i] : i \in 1..Len(args)} |->
                     args[CHOOSE i \in 1..Len(args) : class_.params[i] = p]]]

(* The call of class_ with kwargs: TypeError for a keyword that is no      *)
(* parameter and for a parameter without a default that is not passed.     *)
construct(class_, kwargs) ==
    IF \/ \E k \in DOMAIN kwargs : \A i \in 1..Len(class_.params) : class_.params[i] # k
       \/ \E i \in 1..class_.required : class_.params[i] \notin DOMAIN kwargs
    THEN [err |-> Raise("TypeError"), val |-> None]
    ELSE [err |-> NoError,
          val |-> [t |-> "object", tag |-> NoTag,
                   v |-> [class |-> class_.name,
                          args |-> [p \in {class_.params[i] : i \in 1..Len(class_.params)} |->
                                      IF p \in DOMAIN kwargs THEN kwargs[p]
                                      ELSE DefaultValue]]]]

(* object_constructor(loader, tag_suffix, node) for a node whose children  *)
(* are plain values                                                        *)
object_constructor(tag_suffix, node) ==
    LET class_ == locate(tag_suffix) IN
    IF ~class_.found THEN [err |-> Raise("ValueError"), val |-> None]
    ELSE LET kwargs == IF node.t = "map" THEN [err |-> NoError, val |-> node.v]
                       ELSE IF node.t = "seq" THEN bind(class_, node.v)
                       ELSE [err |-> NoError, val |-> <<>>]
         IN  IF kwargs.err.kind # "none" THEN [err |-> kwargs.err, val |-> None]
             ELSE construct(class_, kwargs.val)

(* object_constructor called on its own *)
ObjectConstructor ==
    /\ pc = "construct"
    /\ LET r == object_constructor(input.tag_suffix, input.node) IN
         /\ result' = r.val
         /\ error' = r.err
         /\ pc' = IF r.err.kind # "none" THEN "raised" ELSE "constructed"
    /\ UNCHANGED <<reference, reference_list, preview, depth, log, derefs,
                   interp, input, loadVars>>

(* The sequences of length n over the set S *)
Tuples(S, n) == UNION {[1..m -> S] : m \in 0..n}

(* The nodes handed to object_constructor: sequences, mappings keyed by    *)
(* parameter names, and a scalar.                                          *)
Nodes ==
    {ListVal(args) : args \in Tuples({IntVal(1), IntVal(2)}, MaxParams + 1)}
    \cup {MapVal(f) : f \in UNION {[ks -> {IntVal(1)}] :
                          ks \in SUBSET {ParamNames[i] : i \in 1..(MaxParams + 1)}}}
    \cup {IntVal(1)}

InitConstruct ==
    /\ pc = "construct"
    /\ input \in [tag_suffix : ClassNames \cup {<<"X">>}, node : Nodes]
    /\ preview = MapVal(<<>>)
    /\ overrides = MapVal(<<>>)
    /\ reference = None
    /\ reference_list = <<>>
    /\ depth = 0
    /\ result = None
    /\ error = NoError
    /\ log = <<>>
    /\ derefs = <<>>
    /\ interp = "none"
    /\ todo = <<>>
    /\ realized = <<>>
    /\ merges = 0

NextConstruct == ObjectConstructor

SpecConstruct == InitConstruct /\ [][NextConstruct]_vars

----------------------------------------------------------------------------
(* _recursive_resolve *)

(* The depth at which the interpreter refuses a further call and raises    *)
(* RecursionError (sys.getrecursionlimit(), here small).                   *)
RecursionLimit == 6

(* Mutant of CircularDetected: only the latest entry is compared. *)
CircularDetected_LastOnly(ref, rlist) ==
    /\ Len(rlist) > 1
    /\ rlist[Len(rlist)] = ref

(* len(reference_list) > 1 and reference in reference_list[1:] *)
CircularDetected(ref, rlist) ==
    /\ Len(rlist) > 1
    /\ \E i \in 2..Len(rlist) : rlist[i] = ref

(* [match[0] for match in matches]: findall gives the matches as strings,  *)
(* so match[0] is the first character of each.                             *)
ContextEntries(matches) ==
    [i \in 1..Len(matches) |-> StrVal(<<matches[i][1]>>)]

(* reference_finder.sub(replace_fn, s) with replace_fn(x) =                *)
(* str(deref(x[0], preview)): every match is replaced, left to right; the  *)
(* first deref that raises ends the substitution.  refs are the references *)
(* handed to deref.                                                        *)
RECURSIVE sub_from(_, _, _, _, _, _)
sub_from(s, i, doc, out, lg, refs) ==
    IF i > Len(s) THEN [err |-> NoError, val |-> out, log |-> lg, refs |-> refs]
    ELSE IF s[i] = "$" /\ RunEnd(s, i) > i
         THEN LET m == SubSeq(s, i, RunEnd(s, i))
                  d == deref(m, doc)
              IN  IF d.err.kind # "none"
                  THEN [err |-> d.err, val |-> out, log |-> lg \o d.log,
                        refs |-> Append(refs, m)]
                  ELSE sub_from(s, RunEnd(s, i) + 1, doc, out \o PyStr(d.val),
                                lg \o d.log, Append(refs, m))
         ELSE sub_from(s, i + 1, doc, Append(out, s[i]), lg, refs)

sub(s, doc) == sub_from(s, 1, doc, <<>>, <<>>, <<>>)

(* return _recursive_resolve(value, reference_list, preview): one more     *)
(* frame, or RecursionError when the stack is full.                        *)
RecursiveCall(value) ==
    IF depth >= RecursionLimit
    THEN /\ pc' = "raised"
         /\ error' = Raise("RecursionError")
         /\ UNCHANGED <<reference, depth>>
    ELSE /\ reference' = value
         /\ depth' = depth + 1
         /\ UNCHANGED <<pc, error>>

(* raise ValueError("Circular reference detected: ", reference_list) *)
RaiseCircular ==
    /\ pc = "call"
    /\ CircularDetected(reference, reference_list)
    /\ pc' = "raised"
    /\ error' = Raise("ValueError")
    /\ UNCHANGED <<reference, reference_list, preview, depth, result, log,
                   derefs, interp, input>>
    /\ UNCHANGED loadVars

(* Base case, no '$' present: return reference *)
BaseCase ==
    /\ pc = "call"
    /\ ~CircularDetected(reference, reference_list)
    /\ ~HasMarker(reference)
    /\ pc' = "returned"
    /\ result' = reference
    /\ UNCHANGED <<reference, reference_list, preview, depth, error, log,
                   derefs, interp, input>>
    /\ UNCHANGED loadVars

(* reference_finder.fullmatch(reference) on a value that is not a string   *)
(* raises TypeError.                                                       *)
FullMatchTypeError ==
    /\ pc = "call"
    /\ ~CircularDetected(reference, reference_list)
    /\ HasMarker(reference)
    /\ reference.t # "str"
    /\ pc' = "raised"
    /\ error' = Raise("TypeError")
    /\ UNCHANGED <<reference, reference_list, preview, depth, result, log,
                   derefs, interp, input>>
    /\ UNCHANGED loadVars

(* Full match: value = deref(reference, preview); reference_list +=        *)
(* [reference]; return _recursive_resolve(value, ...)                      *)
FullMatch ==
    /\ pc = "call"
    /\ ~CircularDetected(reference, reference_list)
    /\ HasMarker(reference)
    /\ reference.t = "str"
    /\ fullmatch(reference.v)
    /\ LET d == deref(reference.v, preview) IN
         /\ log' = log \o d.log
         /\ derefs' = Append(derefs, reference)
         /\ IF d.err.kind # "none"
            THEN /\ pc' = "raised"
                 /\ error' = d.err
                 /\ UNCHANGED <<reference, reference_list, depth, interp>>
            ELSE /\ reference_list' = Append(reference_list, reference)
                 /\ interp' = IF interp = "none" THEN "none" ELSE "full"
                 /\ RecursiveCall(d.val)
    /\ UNCHANGED <<preview, result, input>>
    /\ UNCHANGED loadVars

(* Interpolation: matches = findall(reference); reference_list +=          *)
(* [match[0] for match in matches]; sub = reference_finder.sub(...);       *)
(* return _recursive_resolve(sub, ...)                                     *)
Interpolation ==
    /\ pc = "call"
    /\ ~CircularDetected(reference, reference_list)
    /\ HasMarker(reference)
    /\ reference.t = "str"
    /\ ~fullmatch(reference.v)
    /\ LET matches == findall(reference.v)
           r == sub(reference.v, preview)
       IN
         /\ reference_list' = reference_list \o ContextEntries(matches)
         /\ log' = log \o r.log
         /\ derefs' = derefs \o [i \in 1..Len(r.refs) |-> StrVal(r.refs[i])]
         /\ IF r.err.kind # "none"
            THEN /\ pc' = "raised"
                 /\ error' = r.err
                 /\ UNCHANGED <<reference, depth, interp>>
            ELSE /\ interp' = "interp"
                 /\ RecursiveCall(StrVal(r.val))
    /\ UNCHANGED <<preview, result, input>>
    /\ UNCHANGED loadVars

----------------------------------------------------------------------------
(* The documents and the references of the model *)

ka == <<"a">>
kb == <<"b">>
kc == <<"c">>

(* The values a key of a document holds *)
DocValues ==
    { IntVal(3),
      StrVal(<<"a">>),
      StrVal(<<>>),
      StrVal(<<"$">>),
      StrVal(<<"$", "a">>),
      StrVal(<<"$", "b">>),
      StrVal(<<"$", "c">>),
      MapVal(ka :> IntVal(3)),
      ListVal(<<IntVal(3)>>),
      ListVal(<<StrVal(<<"$", "a">>)>>),
      TaggedScalar(<<"!", "$", "a">>),
      TaggedMap(<<"!">> \o ClassName(1, 1), <<"p">> :> IntVal(1)) }

(* The key c may also hold a string that interpolates two references, or   *)
(* one in which a marker stands before a reference.                        *)
Interpolated == StrVal(<<"$", "b", "/", "$", "b">>)
MarkerThenReference == StrVal(<<"$", "$", "a">>)

Docs ==
    {MapVal(f) : f \in {g \in [{ka, kb, kc} ->
                                DocValues \cup {Interpolated, MarkerThenReference}] :
                            /\ g[ka] \in DocValues
                            /\ g[kb] \in DocValues}}

(* The values _recursive_resolve is started on *)
References ==
    { StrVal(<<"$", "a">>),
      StrVal(<<"$", "b">>),
      StrVal(<<"$", "c">>),
      StrVal(<<"$", "d">>),
      StrVal(<<"$", "c", ".", "a">>),
      StrVal(<<"$", "a", ".", "b">>),
      StrVal(<<"$", "$", "b">>),
      StrVal(<<"$", "b", "/", "x">>),
      StrVal(<<"x">>),
      StrVal(<<"$">>),
      IntVal(3) }

(* _recursive_resolve(reference, [], preview) *)
Init ==
    /\ pc = "call"
    /\ reference \in References
    /\ reference_list = <<>>
    /\ preview \in Docs
    /\ depth = 1
    /\ result = None
    /\ error = NoError
    /\ log = <<>>
    /\ derefs = <<>>
    /\ interp = "none"
    /\ input = [reference |-> reference, preview |-> preview]
    /\ overrides = MapVal(<<>>)
    /\ todo = <<>>
    /\ realized = <<>>
    /\ merges = 0

Next ==
    \/ RaiseCircular
    \/ BaseCase
    \/ FullMatchTypeError
    \/ FullMatch
    \/ Interpolation

Spec == Init /\ [][Next]_vars

----------------------------------------------------------------------------
(* load_extended_yaml *)

(* preview = ruamel_yaml.load(yaml_string); recursive_update(preview,      *)
(* overrides); the merged document is dumped and handed to yaml.load.      *)
Merge ==
    /\ pc = "parsed"
    /\ LET r == recursive_update(preview, overrides) IN
         /\ preview' = r.d
         /\ error' = r.err
         /\ pc' = IF r.err.kind # "none" THEN "raised" ELSE "merged"
         /\ todo' = OrderedKeys(r.d.v, 1)
    /\ merges' = merges + 1
    /\ UNCHANGED <<reference, reference_list, depth, result, log, derefs,
                   interp, input, overrides, realized>>

HasDollar(s) == \E i \in 1..Len(s) : s[i] = "$"

(* yaml.load constructs the next node, which has no tag: its value as it   *)
(* is.                                                                     *)
ConstructPlain ==
    /\ pc \in {"merged", "resolving"}
    /\ todo # <<>>
    /\ preview.v[Head(todo)].tag = NoTag
    /\ realized' = (Head(todo) :> preview.v[Head(todo)]) @@ realized
    /\ todo' = Tail(todo)
    /\ pc' = "resolving"
    /\ UNCHANGED <<reference, reference_list, preview, depth, result, error,
                   log, derefs, interp, input, overrides, merges>>

(* obj_and_ref_constructor, '$' in tag_suffix: construct_scalar(node),     *)
(* which refuses a node that is not a scalar, then                         *)
(* _recursive_resolve(tag_suffix, [], preview).                            *)
ConstructReference ==
    /\ pc \in {"merged", "resolving"}
    /\ todo # <<>>
    /\ LET node == preview.v[Head(todo)] IN
         /\ node.tag # NoTag
         /\ HasDollar(Tail(node.tag))
         /\ IF node.t # "tagged"
            THEN /\ pc' = "raised"
                 /\ error' = Raise("ConstructorError")
                 /\ UNCHANGED <<reference, reference_list, depth>>
            ELSE /\ pc' = "call"
                 /\ reference' = StrVal(Tail(node.tag))
                 /\ reference_list' = <<>>
                 /\ depth' = 1
                 /\ UNCHANGED error
    /\ UNCHANGED <<preview, result, log, derefs, interp, input, loadVars>>

(* obj_and_ref_constructor, no '$' in tag_suffix:                          *)
(* object_constructor(loader, tag_suffix, node)                            *)
ConstructObject ==
    /\ pc \in {"merged", "resolving"}
    /\ todo # <<>>
    /\ LET node == preview.v[Head(todo)] IN
         /\ node.tag # NoTag
         /\ ~HasDollar(Tail(node.tag))
         /\ LET r == object_constructor(Tail(node.tag), node) IN
              IF r.err.kind # "none"
              THEN /\ pc' = "raised"
                   /\ error' = r.err
                   /\ UNCHANGED <<todo, realized>>
              ELSE /\ pc' = "resolving"
                   /\ realized' = (Head(todo) :> r.val) @@ realized
                   /\ todo' = Tail(todo)
                   /\ UNCHANGED error
    /\ UNCHANGED <<reference, reference_list, preview, depth, result, log,
                   derefs, interp, input, overrides, merges>>

(* _recursive_resolve has returned to obj_and_ref_constructor: its value   *)
(* is the value of the node.                                               *)
ReferenceResolved ==
    /\ pc = "returned"
    /\ todo # <<>>
    /\ realized' = (Head(todo) :> result) @@ realized
    /\ todo' = Tail(todo)
    /\ pc' = "resolving"
    /\ UNCHANGED <<reference, reference_list, preview, depth, result, error,
                   log, derefs, interp, input, overrides, merges>>

(* yaml.load returns the constructed document *)
Realize ==
    /\ pc \in {"merged", "resolving"}
    /\ todo = <<>>
    /\ pc' = "realized"
    /\ result' = MapVal(realized)
    /\ UNCHANGED <<reference, reference_list, preview, depth, error, log,
                   derefs, interp, input, loadVars>>

ReferenceTag(key) == TaggedScalar(<<"!", "$">> \o key)

(* The values a key of a loaded document holds: numbers, reference tags (a *)
(* whole reference and an interpolated one), a nested mapping, a list, and *)
(* nodes tagged with a class name.                                         *)
LoadValues ==
    { IntVal(3),
      ReferenceTag(ka),
      ReferenceTag(kb),
      ReferenceTag(kc),
      TaggedScalar(<<"!", "$", "a", "/", "x">>),
      MapVal(ka :> IntVal(3)),
      ListVal(<<StrVal(<<"$", "a">>)>>),
      TaggedMap(<<"!">> \o ClassName(1, 1), <<"p">> :> IntVal(1)),
      [t |-> "seq", tag |-> <<"!">> \o ClassName(1, 1), v |-> <<IntVal(1), IntVal(2)>>] }

LoadDocs == {MapVal(f) : f \in [{ka, kb, kc} -> LoadValues]}

LoadOverrides ==
    { MapVal(<<>>),
      MapVal(ka :> IntVal(7)),
      MapVal(kb :> IntVal(7) @@ kc :> IntVal(8)),
      MapVal(<<"d">> :> IntVal(7)),
      MapVal(ka :> StrVal(<<"$", "b">>)),
      MapVal(ka :> MapVal(ka :> IntVal(7))),
      MapVal(<<"d">> :> MapVal(ka :> IntVal(7))) }

(* load_extended_yaml(yaml_string, overrides), the text parsed *)
InitLoad ==
    /\ pc = "parsed"
    /\ preview \in LoadDocs
    /\ overrides \in LoadOverrides
    /\ input = [preview |-> preview, overrides |-> overrides]
    /\ reference = None
    /\ reference_list = <<>>
    /\ depth = 0
    /\ result = None
    /\ error = NoError
    /\ log = <<>>
    /\ derefs = <<>>
    /\ interp = "none"
    /\ todo = <<>>
    /\ realized = <<>>
    /\ merges = 0

NextLoad ==
    \/ Merge
    \/ ConstructPlain
    \/ ConstructReference
    \/ ConstructObject
    \/ ReferenceResolved
    \/ Realize
    \/ RaiseCircular
    \/ BaseCase
    \/ FullMatchTypeError
    \/ FullMatch
    \/ Interpolation

SpecLoad == InitLoad /\ [][NextLoad]_vars

----------------------------------------------------------------------------
(* Chains of whole-value references, followed in the document alone *)

IsWholeReference(x) == x.t = "str" /\ fullmatch(x.v)

(* More hops than a document of the model has reference values: a chain    *)
(* that is still running after this many hops has revisited a reference.   *)
ChainHops == Len(KeyOrder) + 1

(* Where the chain of whole-value references from x ends: at a value that  *)
(* is not a whole reference ("value"), at a reference that cannot be       *)
(* dereferenced ("error"), or never ("cycle").                             *)
RECURSIVE ChainEnd(_, _, _)
ChainEnd(x, doc, n) ==
    IF ~IsWholeReference(x) THEN [status |-> "value", val |-> x]
    ELSE IF n = 0 THEN [status |-> "cycle", val |-> None]
    ELSE LET d == deref(x.v, doc) IN
         IF d.err.kind # "none" THEN [status |-> "error", val |-> None]
         ELSE ChainEnd(d.val, doc, n - 1)

InputChain == ChainEnd(input.reference, input.preview, ChainHops)

(* No reference occurs in the value *)
NoReferenceIn(x) == findall(PyStr(x)) = <<>>

----------------------------------------------------------------------------
(* C3: when the whole-value references from the input reference run into a *)
(* cycle, the resolution never returns a value: it is still running with a *)
(* step to take, or it has failed, and then with the circular-reference    *)
(* error (ValueError) and no other.                                        *)
C3_CycleFails ==
    (IsWholeReference(input.reference) /\ InputChain.status = "cycle") =>
        \/ pc = "call" /\ ENABLED Next
        \/ pc = "raised" /\ error.kind = "ValueError"

(* A cycle of three references, entered at $a, has been detected. *)
C3_Witness ==
    /\ IsWholeReference(input.reference)
    /\ InputChain.status = "cycle"
    /\ pc = "raised"
    /\ error.kind = "ValueError"
    /\ reference_list = << StrVal(<<"$", "a">>), StrVal(<<"$", "b">>),
                           StrVal(<<"$", "c">>), StrVal(<<"$", "a">>) >>

(* C4: when the input is one reference whose chain of whole-value          *)
(* references is acyclic and ends at a value v in which no reference       *)
(* occurs, the resolution does not fail and what it returns is v itself.   *)
C4_NativeValue ==
    (/\ IsWholeReference(input.reference)
     /\ InputChain.status = "value"
     /\ NoReferenceIn(InputChain.val)) =>
        /\ pc # "raised"
        /\ pc = "returned" => result = InputChain.val

(* C5 as stated: once a reference inside a larger string has been          *)
(* substituted, a returned result is a string in which no reference        *)
(* remains.                                                                *)
C5_AlwaysString ==
    (pc = "returned" /\ interp # "none") =>
        result.t = "str" /\ ~HasMarker(result)

ExampleDoc ==
    MapVal(ka :> IntVal(3) @@ kb :> StrVal(<<"$", "a">>) @@ kc :> Interpolated)

(* C5 amended: a returned result never contains the reference marker; it   *)
(* is a string when no substituted string was itself exactly one           *)
(* reference; and resolving "$c" in {a: 3, b: "$a", c: "$b/$b"} returns    *)
(* the string "3/3".                                                       *)
C5_StringUnlessWholeReference ==
    /\ pc = "returned" => ~HasMarker(result)
    /\ (pc = "returned" /\ interp = "interp") => result.t = "str"
    /\ (/\ pc = "returned"
        /\ input.reference = StrVal(<<"$", "c">>)
        /\ input.preview = ExampleDoc) => result = StrVal(<<"3", "/", "3">>)

(* "$c" has been resolved to "3/3" in the example document. *)
C5_Witness ==
    /\ pc = "returned"
    /\ interp = "interp"
    /\ input.preview = ExampleDoc
    /\ input.reference = StrVal(<<"$", "c">>)
    /\ result = StrVal(<<"3", "/", "3">>)

(* The first segment of the path of ref that does not name a key of the    *)
(* mapping reached, if there is one.                                       *)
RECURSIVE MissingSegment(_, _)
MissingSegment(parts, node) ==
    IF parts = <<>> THEN [missing |-> FALSE, part |-> <<>>]
    ELSE IF node.t = "map" /\ Head(parts) \in DOMAIN node.v
         THEN MissingSegment(Tail(parts), node.v[Head(parts)])
         ELSE [missing |-> TRUE, part |-> Head(parts)]

InputMissing == MissingSegment(split(Tail(input.reference.v)), input.preview)

(* C6: when a segment of the input reference names no key of the mapping   *)
(* reached at its depth (also when what is reached is a scalar or a        *)
(* sequence), the resolution returns nothing, and its failure is the       *)
(* missing-reference error (KeyError) that carries the missing segment.    *)
C6_MissingReferenceError ==
    (IsWholeReference(input.reference) /\ InputMissing.missing) =>
        /\ pc # "returned"
        /\ pc = "raised" =>
              error.kind = "KeyError" /\ error.part = InputMissing.part

(* C9: every resolution ends by returning a value or by raising an error   *)
(* of the resolution (circular reference, missing key, wrong type); none   *)
(* recurses until the interpreter's stack is exhausted.                    *)
C9_Terminates ==
    pc = "raised" => error.kind \in {"ValueError", "KeyError", "TypeError"}

(* C10: while no error has been raised the context holds exactly the       *)
(* references dereferenced so far, whole and in order.                     *)
C10_ContextHoldsReferences ==
    pc # "raised" => reference_list = derefs

----------------------------------------------------------------------------
(* Paths of keys in nested mappings *)

RECURSIVE Present(_, _)
Present(p, node) ==
    \/ p = <<>>
    \/ /\ node.t = "map"
       /\ Head(p) \in DOMAIN node.v
       /\ Present(Tail(p), node.v[Head(p)])

RECURSIVE ValueAt(_, _)
ValueAt(p, node) == IF p = <<>> THEN node ELSE ValueAt(Tail(p), node.v[Head(p)])

(* The non-empty paths present in node, each after prefix *)
RECURSIVE AllPaths(_, _)
AllPaths(node, prefix) ==
    IF node.t # "map" THEN {}
    ELSE UNION {{Append(prefix, k)} \cup AllPaths(node.v[k], Append(prefix, k)) :
                  k \in DOMAIN node.v}

(* The paths of node that end at a value that is not a mapping *)
LeafPaths(node) == {p \in AllPaths(node, <<>>) : ValueAt(p, node).t # "map"}

(* The override u neither holds the path p nor replaces a mapping above it *)
Untouched(p, u) ==
    /\ ~Present(p, u)
    /\ \A n \in 1..(Len(p) - 1) :
          Present(SubSeq(p, 1, n), u) => ValueAt(SubSeq(p, 1, n), u).t = "map"

(* The merge leaves every path of d that u does not touch as it was *)
UpdateFrame ==
    pc = "updated" =>
        \A p \in AllPaths(input.d, <<>>) :
            Untouched(p, input.u) =>
                Present(p, preview) /\ ValueAt(p, preview) = ValueAt(p, input.d)

(* C1: after recursive_update(d, u) every path of d that u does not touch  *)
(* has the value it had, and every value of u that is not a mapping is in  *)
(* d at the same path.                                                     *)
C1_MergeFrameAndOverride ==
    /\ UpdateFrame
    /\ pc = "updated" =>
          \A p \in LeafPaths(input.u) :
              Present(p, preview) /\ ValueAt(p, preview) = ValueAt(p, input.u)

(* C2: when u holds a mapping at a key k that d lacks, after               *)
(* recursive_update(d, u) every leaf of u[k] is in d under k, at the path  *)
(* it has in u[k].                                                         *)
C2_AbsentKeyCreated ==
    pc = "updated" =>
        \A k \in DOMAIN input.u.v :
            (input.u.v[k].t = "map" /\ k \notin DOMAIN input.d.v) =>
                \A p \in LeafPaths(input.u.v[k]) :
                    /\ Present(<<k>> \o p, preview)
                    /\ ValueAt(<<k>> \o p, preview) = ValueAt(p, input.u.v[k])

----------------------------------------------------------------------------
InputClass == locate(input.tag_suffix)

(* C8 as stated: for a sequence body whose number of elements differs from *)
(* the number of declared parameters the construction fails with the       *)
(* argument-binding error (TypeError); a construction that succeeds has    *)
(* bound every element to the parameter at its position.                   *)
C8_ArityMismatchFails ==
    (pc # "construct" /\ InputClass.found /\ input.node.t = "seq") =>
        /\ Len(input.node.v) # Len(InputClass.params) =>
              pc = "raised" /\ error.kind = "TypeError"
        /\ pc = "constructed" =>
              \A i \in 1..Len(input.node.v) :
                  result.v.args[InputClass.params[i]] = input.node.v[i]

(* C8 amended: the construction fails with TypeError exactly when there    *)
(* are more elements than declared parameters or fewer than parameters     *)
(* without a default; otherwise element i is bound to parameter i, no      *)
(* element is dropped, and the parameters left over take their defaults.   *)
C8_BindsOrFails ==
    (pc # "construct" /\ InputClass.found /\ input.node.t = "seq") =>
        IF \/ Len(input.node.v) > Len(InputClass.params)
           \/ Len(input.node.v) < InputClass.required
        THEN pc = "raised" /\ error.kind = "TypeError"
        ELSE /\ pc = "constructed"
             /\ \A i \in 1..Len(InputClass.params) :
                   result.v.args[InputClass.params[i]] =
                       IF i <= Len(input.node.v) THEN input.node.v[i]
                       ELSE DefaultValue

(* A sequence with one element more than the class has parameters has      *)
(* been refused.                                                           *)
C8_Witness ==
    /\ pc = "raised"
    /\ error.kind = "TypeError"
    /\ InputClass.found
    /\ input.node.t = "seq"
    /\ Len(InputClass.params) >= 1
    /\ Len(input.node.v) = Len(InputClass.params) + 1

----------------------------------------------------------------------------
(* The key a reference tag names when the tag is one whole reference to a  *)
(* top-level key                                                           *)
TagTarget(node) == SubSeq(node.tag, 3, Len(node.tag))

NamesOverridden(node) ==
    /\ node.t = "tagged"
    /\ Len(node.tag) = 3
    /\ TagTarget(node) \in DOMAIN overrides.v
    /\ overrides.v[TagTarget(node)].t = "int"

(* C7: the overrides are merged exactly once, and before any reference is  *)
(* resolved or node constructed; from then on the document is the merged   *)
(* one and does not change; and a node whose tag refers to a key that the  *)
(* override replaces by a number is realized as the override's number.     *)
C7_MergeBeforeResolve ==
    /\ pc = "parsed" => merges = 0
    /\ pc \in {"parsed", "merged"} => derefs = <<>> /\ realized = <<>>
    /\ pc \notin {"parsed", "raised"} =>
          /\ merges = 1
          /\ preview = update_items(input.preview, input.overrides,
                                    OrderedKeys(input.overrides.v, 1), 1).d
    /\ pc # "parsed" =>
          \A k \in DOMAIN realized :
              NamesOverridden(preview.v[k]) =>
                  realized[k] = overrides.v[TagTarget(preview.v[k])]

(* The text has a: 3 and b: !$a, the override has a: 7, and b has been     *)
(* realized as 7.                                                          *)
C7_Witness ==
    /\ pc = "realized"
    /\ input.preview.v[ka] = IntVal(3)
    /\ input.preview.v[kb] = ReferenceTag(ka)
    /\ overrides.v = (ka :> IntVal(7))
    /\ realized[kb] = IntVal(7)

----------------------------------------------------------------------------
(* The node the path of the input reference leads to, before deref looks   *)
(* at its tag                                                              *)
InputNode ==
    deref_walk(input.reference.v, split(Tail(input.reference.v)),
               input.preview, <<>>)

(* The tag is a reference expression: '$' follows the '!' *)
IsReferenceTag(tag) == Len(tag) >= 2 /\ tag[2] = "$"

(* The first deref of a whole-reference input has returned, and its value  *)
(* is the argument of the call that follows.                               *)
FirstDerefReturned ==
    /\ IsWholeReference(input.reference)
    /\ pc = "call"
    /\ depth = 2
    /\ Len(derefs) = 1
    /\ interp = "none"

(* C11: what deref returns is the tag of the node (without the '!') when   *)
(* that tag is a reference expression, and the node itself when it has no  *)
(* tag or its tag is a class name.                                         *)
C11_TagOnlyForReferences ==
    FirstDerefReturned =>
        reference = IF IsReferenceTag(InputNode.val.tag)
                    THEN StrVal(Tail(InputNode.val.tag))
                    ELSE InputNode.val

----------------------------------------------------------------------------
(* The reference graph of a document: a key points at the keys that the    *)
(* references in the text of its value (or in its tag) start at.           *)
ValueText(node) ==
    IF node.tag # NoTag THEN Tail(node.tag)
    ELSE PyStr(node)

FirstSegments(text) ==
    LET matches == findall(text) IN
    {split(Tail(matches[i]))[1] : i \in 1..Len(matches)}

RefersTo(doc, k) == FirstSegments(ValueText(doc.v[k])) \cap DOMAIN doc.v

RECURSIVE ReachableFrom(_, _, _)
ReachableFrom(doc, ks, n) ==
    IF n = 0 THEN ks
    ELSE ReachableFrom(doc, ks \cup UNION {RefersTo(doc, k) : k \in ks}, n - 1)

Acyclic(doc) ==
    \A k \in DOMAIN doc.v :
        k \notin ReachableFrom(doc, RefersTo(doc, k), Len(KeyOrder))

(* C12: resolving any reference against a document whose reference graph   *)
(* is acyclic never fails with the circular-reference error.               *)
C12_AcyclicNeverCircular ==
    Acyclic(input.preview) =>
        ~(pc = "raised" /\ error.kind = "ValueError")

====
